---- MODULE Spec2Model ----
(***************************************************************************)
(* Model of Player_GUI.py: the NBA player prop dashboard.                  *)
(*                                                                         *)
(* The pure helpers (get_season_string, the previous-season derivation of  *)
(* get_last_10_games, matchup_multiplier, get_matchup_score, simplify_slot,*)
(* the sort/head of get_last_10_games) are operators.  Each has a small    *)
(* specification that draws its inputs and applies it (SpecSeason,         *)
(* SpecMult, SpecSlot, SpecLogs).  Spec is one run of the "Fetch Stats"    *)
(* button handler, one action per step that can raise.                     *)
(*                                                                         *)
(* Text is a sequence of one-character strings.  A float is a record: an   *)
(* exact rational, NaN, or a signed infinity.  Only the league standard    *)
(* deviation is rounded (to 1/FScale), as a square root has to be.         *)
(*                                                                         *)
(* The @st.cache_data decorators belong to the external caching layer: a   *)
(* decorated function is modelled by one evaluation of its body.  Of the   *)
(* 30 teams, three are kept; a game-log row keeps its GAME_DATE.           *)
(***************************************************************************)
EXTENDS Integers, Sequences, FiniteSets

VARIABLES
    pc,               \* position of the script / of the function under study
    today,            \* datetime.today(): [year, month]
    current_season,   \* get_last_10_games: current_season
    previous_season,  \* get_last_10_games: previous_season
    logs_current,     \* rows of the current-season PlayerGameLog frame
    logs_previous,    \* rows of the previous-season PlayerGameLog frame
    stats_df,         \* rows returned by get_last_10_games
    position,         \* commonplayerinfo POSITION text
    slot,             \* simplify_slot(position)
    scorer_call,      \* arguments of the matchup_multiplier call, if one was made
    matchup_score,    \* multiplier returned, in hundredths, if one was returned
    matches,          \* players.find_players_by_full_name(name)
    player_id,        \* get_player_id(player_name)
    opponent_abbr,    \* the selectbox value
    dvp_table,        \* get_dvp_table(): TEAM_NAME -> row of three columns
    league,           \* the six league statistics (mean and std per column)
    shown,            \* what the page has displayed so far, in order
    fetches,          \* the API requests issued so far, in order
    failed            \* the step that raised, if any

vars == <<pc, today, current_season, previous_season, logs_current, logs_previous,
          stats_df, position, slot, scorer_call, matchup_score, matches, player_id,
          opponent_abbr, dvp_table, league, shown, fetches, failed>>

----------------------------------------------------------------------------
(* Bounds of the model *)

MaxYear == 2031
MaxPts == 14
MaxPosLen == 3
MaxLogLen == 6
MaxRunLogLen == 1
FScale == 10

(* Python's None, and a value that is present *)
None == [some |-> FALSE]
Some(x) == [some |-> TRUE, val |-> x]

----------------------------------------------------------------------------
(* Text *)

Text(S, n) == UNION {[1..k -> S] : k \in 0..n}

Take(s, n) == SubSeq(s, 1, IF n < Len(s) THEN n ELSE Len(s))

LastChars(s, n) == SubSeq(s, IF Len(s) > n THEN Len(s) - n + 1 ELSE 1, Len(s))

Contains(needle, s) ==
    \E i \in 1..(Len(s) - Len(needle) + 1) : SubSeq(s, i, i + Len(needle) - 1) = needle

Digits == <<"0", "1", "2", "3", "4", "5", "6", "7", "8", "9">>

RECURSIVE Str(_)
Str(n) == IF n < 10 THEN <<Digits[n + 1]>> ELSE Str(n \div 10) \o <<Digits[(n % 10) + 1]>>

DigitValue(c) == CHOOSE d \in 0..9 : Digits[d + 1] = c

RECURSIVE ParseInt(_)
ParseInt(s) ==
    IF Len(s) = 1 THEN DigitValue(s[1])
    ELSE 10 * ParseInt(SubSeq(s, 1, Len(s) - 1)) + DigitValue(s[Len(s)])

----------------------------------------------------------------------------
(* Floats *)

Num(x) == [k |-> "num", n |-> x, d |-> 1]
Rat(x, y) == [k |-> "num", n |-> x, d |-> y]
NaN == [k |-> "nan", n |-> 0, d |-> 1]
Inf(sign) == [k |-> "inf", n |-> sign, d |-> 1]

FSub(a, b) ==
    IF a.k = "nan" \/ b.k = "nan" THEN NaN
    ELSE IF a.k = "inf" /\ b.k = "inf" THEN (IF a.n = b.n THEN NaN ELSE a)
    ELSE IF a.k = "inf" THEN a
    ELSE IF b.k = "inf" THEN Inf(-b.n)
    ELSE Rat(a.n * b.d - b.n * a.d, a.d * b.d)

\* IEEE-754 division, as numpy's float64 scalars divide: x/0 is NaN or an infinity.
FDiv(a, b) ==
    IF a.k = "nan" \/ b.k = "nan" THEN NaN
    ELSE IF a.k = "inf" /\ b.k = "inf" THEN NaN
    ELSE IF a.k = "inf" THEN (IF b.n < 0 THEN Inf(-a.n) ELSE a)
    ELSE IF b.k = "inf" THEN Num(0)
    ELSE IF b.n = 0 THEN (IF a.n = 0 THEN NaN ELSE IF a.n > 0 THEN Inf(1) ELSE Inf(-1))
    ELSE IF b.n > 0 THEN Rat(a.n * b.d, a.d * b.n)
    ELSE Rat(-(a.n * b.d), a.d * (-b.n))

\* a >= x/y and a <= x/y for a float a and a literal x/y (y > 0); false on NaN.
FGe(a, x, y) ==
    IF a.k = "nan" THEN FALSE
    ELSE IF a.k = "inf" THEN a.n > 0
    ELSE a.n * y >= x * a.d

FLe(a, x, y) ==
    IF a.k = "nan" THEN FALSE
    ELSE IF a.k = "inf" THEN a.n < 0
    ELSE a.n * y <= x * a.d

----------------------------------------------------------------------------
(* get_season_string, and the previous season of get_last_10_games *)

\* The season taken to start in November.
get_season_string_from_november(t) ==
    LET start_year == IF t.month > 10 THEN t.year ELSE t.year - 1
        end_year == IF t.month > 10 THEN t.year + 1 ELSE t.year
    IN Str(start_year) \o <<"-">> \o LastChars(Str(end_year), 2)

get_season_string(t) ==
    LET start_year == IF t.month >= 10 THEN t.year ELSE t.year - 1
        end_year == IF t.month >= 10 THEN t.year + 1 ELSE t.year
    IN Str(start_year) \o <<"-">> \o LastChars(Str(end_year), 2)

previous_season_of(season) ==
    Str(ParseInt(Take(season, 4)) - 1) \o <<"-">> \o Take(season, 2)

----------------------------------------------------------------------------
(* matchup_multiplier, get_matchup_score, simplify_slot *)

\* The last two branches tested in the other order: z <= -1.0 is then never taken.
matchup_multiplier_half_first(pts_allowed, avg, std) ==
    LET z == FDiv(FSub(pts_allowed, avg), std)
    IN IF FGe(z, 1, 1) THEN 125
       ELSE IF FGe(z, 1, 2) THEN 115
       ELSE IF FLe(z, -1, 2) THEN 75
       ELSE IF FLe(z, -1, 1) THEN 85
       ELSE 100

\* Multipliers are in hundredths: 1.25 is 125.
matchup_multiplier(pts_allowed, avg, std) ==
    LET z == FDiv(FSub(pts_allowed, avg), std)
    IN IF FGe(z, 1, 1) THEN 125
       ELSE IF FGe(z, 1, 2) THEN 115
       ELSE IF FLe(z, -1, 1) THEN 85
       ELSE IF FLe(z, -1, 2) THEN 75
       ELSE 100

\* The arguments get_matchup_score hands to matchup_multiplier, if it calls it.
matchup_args(row, s, lg) ==
    IF s \in {"PG", "SG"}
      THEN Some([pts_allowed |-> row.G, avg |-> lg.guard_avg, std |-> lg.guard_std])
    ELSE IF s \in {"SF", "PF"}
      THEN Some([pts_allowed |-> row.F, avg |-> lg.forward_avg, std |-> lg.forward_std])
    ELSE IF s = "C"
      THEN Some([pts_allowed |-> row.C, avg |-> lg.center_avg, std |-> lg.center_std])
    ELSE None

get_matchup_score(row, s, lg) ==
    LET a == matchup_args(row, s, lg)
    IN IF a.some THEN matchup_multiplier(a.val.pts_allowed, a.val.avg, a.val.std)
       ELSE 100

\* "F" tested before "G".
simplify_slot_forward_first(p) ==
    IF Contains(<<"F">>, p) THEN "SF"
    ELSE IF Contains(<<"G">>, p) THEN "PG"
    ELSE IF Contains(<<"C">>, p) THEN "C"
    ELSE "PG"

simplify_slot(p) ==
    IF Contains(<<"G">>, p) THEN "PG"
    ELSE IF Contains(<<"F">>, p) THEN "SF"
    ELSE IF Contains(<<"C">>, p) THEN "C"
    ELSE "PG"

----------------------------------------------------------------------------
(* get_last_10_games: concat, sort_values(descending), head(10) *)

HeadCount == 10

\* A game-log row.  Only GAME_DATE decides which rows are kept and in what order.
GameDates == {1, 2}
GameRows == {[GAME_DATE |-> d] : d \in GameDates}

RECURSIVE InsertDesc(_, _)
InsertDesc(r, s) ==
    IF s = <<>> THEN <<r>>
    ELSE IF Head(s).GAME_DATE < r.GAME_DATE THEN <<r>> \o s
    ELSE <<Head(s)>> \o InsertDesc(r, Tail(s))

RECURSIVE sort_values_desc(_)
sort_values_desc(s) ==
    IF s = <<>> THEN <<>> ELSE InsertDesc(Head(s), sort_values_desc(Tail(s)))

\* head(10) of the concatenation, with the sort left out.
last_10_unsorted(cur, prev) == Take(cur \o prev, HeadCount)

last_10(cur, prev) == Take(sort_values_desc(cur \o prev), HeadCount)

----------------------------------------------------------------------------
(* The defense-by-position table and the league statistics (lines 187-193) *)

TeamAbbrs == {"BOS", "LAL", "LAC"}

team_map == [a \in TeamAbbrs |->
    CASE a = "BOS" -> "Boston Celtics"
      [] a = "LAL" -> "Los Angeles Lakers"
      [] a = "LAC" -> "LA Clippers"]

\* TEAM_NAME values the statistics API may use.
ApiTeamNames == {"Boston Celtics", "Los Angeles Lakers", "Los Angeles Clippers"}

DvpRows == {[G |-> Num(40), F |-> Num(44), C |-> Num(42)],
            [G |-> Num(44), F |-> Num(44), C |-> Num(41)]}

DvpTables == UNION {[T -> DvpRows] : T \in SUBSET ApiTeamNames}

RECURSIVE SumOver(_, _)
SumOver(f, S) ==
    IF S = {} THEN 0
    ELSE LET x == CHOOSE y \in S : TRUE IN f[x] + SumOver(f, S \ {x})

RECURSIVE ISqrtIn(_, _, _)
ISqrtIn(x, lo, hi) ==
    IF lo = hi THEN lo
    ELSE LET mid == (lo + hi + 1) \div 2
         IN IF mid * mid <= x THEN ISqrtIn(x, mid, hi) ELSE ISqrtIn(x, lo, mid - 1)

ISqrt(x) == ISqrtIn(x, 0, x)

\* Series.mean(): NaN on an empty column.
mean(table, c) ==
    LET T == DOMAIN table
        col == [t \in T |-> table[t][c].n]
    IN IF T = {} THEN NaN ELSE Rat(SumOver(col, T), Cardinality(T))

\* Series.std(), ddof = 1: NaN on fewer than two rows, rounded down to 1/FScale.
std(table, c) ==
    LET T == DOMAIN table
        n == Cardinality(T)
        col == [t \in T |-> table[t][c].n]
        S == SumOver(col, T)
        sq == [t \in T |-> (n * col[t] - S) * (n * col[t] - S)]
    IN IF n < 2 THEN NaN
       ELSE Rat(ISqrt((SumOver(sq, T) * FScale * FScale) \div (n - 1)), n * FScale)

league_stats(table) ==
    [guard_avg |-> mean(table, "G"), guard_std |-> std(table, "G"),
     forward_avg |-> mean(table, "F"), forward_std |-> std(table, "F"),
     center_avg |-> mean(table, "C"), center_std |-> std(table, "C")]

----------------------------------------------------------------------------
(* Input sets *)

Years == (1998..MaxYear) \cup {2099, 2100}
Dates == [year : Years, month : 1..12]

\* POSITION values of the player-info endpoint, and short texts over a few characters.
Guard == <<"G", "u", "a", "r", "d">>
Forward == <<"F", "o", "r", "w", "a", "r", "d">>
Center == <<"C", "e", "n", "t", "e", "r">>
PositionNames ==
    {<<>>, Guard, Forward, Center,
     Guard \o <<"-">> \o Forward, Forward \o <<"-">> \o Guard,
     Forward \o <<"-">> \o Center, Center \o <<"-">> \o Forward}
PosChars == {"G", "F", "C", "g", "-"}

ScorerInputs ==
    {[pts_allowed |-> Num(p), avg |-> Num(a), std |-> s] :
        p \in 0..MaxPts, a \in {6, 7}, s \in {NaN, Num(0), Num(1), Num(2), Num(5)}}

----------------------------------------------------------------------------
(* SpecSeason: get_season_string, then lines 32-33 of get_last_10_games *)

InitSeason ==
    /\ pc = "get_season_string"
    /\ today \in Dates
    /\ current_season = <<>> /\ previous_season = <<>>
    /\ logs_current = <<>> /\ logs_previous = <<>> /\ stats_df = <<>>
    /\ position = <<>> /\ slot = "none"
    /\ scorer_call = None /\ matchup_score = None
    /\ matches = <<>> /\ player_id = "None"
    /\ opponent_abbr = "BOS"
    /\ dvp_table = <<>> /\ league = None
    /\ shown = <<>> /\ fetches = <<>> /\ failed = "none"

GetSeasonString ==
    /\ pc = "get_season_string"
    /\ current_season' = get_season_string(today)
    /\ pc' = "previous_season"
    /\ UNCHANGED <<today, previous_season, logs_current, logs_previous, stats_df,
                   position, slot, scorer_call, matchup_score, matches, player_id,
                   opponent_abbr, dvp_table, league, shown, fetches, failed>>

PreviousSeason ==
    /\ pc = "previous_season"
    /\ previous_season' = previous_season_of(current_season)
    /\ pc' = "seasons_done"
    /\ UNCHANGED <<today, current_season, logs_current, logs_previous, stats_df,
                   position, slot, scorer_call, matchup_score, matches, player_id,
                   opponent_abbr, dvp_table, league, shown, fetches, failed>>

NextSeason == GetSeasonString \/ PreviousSeason

SpecSeason == InitSeason /\ [][NextSeason]_vars

----------------------------------------------------------------------------
(* SpecMult: matchup_multiplier on drawn arguments *)

InitMult ==
    /\ pc = "matchup_multiplier"
    /\ scorer_call \in {Some(a) : a \in ScorerInputs}
    /\ today = [year |-> 2025, month |-> 11]
    /\ current_season = <<>> /\ previous_season = <<>>
    /\ logs_current = <<>> /\ logs_previous = <<>> /\ stats_df = <<>>
    /\ position = <<>> /\ slot = "none"
    /\ matchup_score = None
    /\ matches = <<>> /\ player_id = "None"
    /\ opponent_abbr = "BOS"
    /\ dvp_table = <<>> /\ league = None
    /\ shown = <<>> /\ fetches = <<>> /\ failed = "none"

MatchupMultiplier ==
    /\ pc = "matchup_multiplier"
    /\ matchup_score' = Some(matchup_multiplier(scorer_call.val.pts_allowed,
                                                scorer_call.val.avg,
                                                scorer_call.val.std))
    /\ pc' = "multiplier_done"
    /\ UNCHANGED <<today, current_season, previous_season, logs_current, logs_previous,
                   stats_df, position, slot, scorer_call, matches, player_id,
                   opponent_abbr, dvp_table, league, shown, fetches, failed>>

NextMult == MatchupMultiplier

SpecMult == InitMult /\ [][NextMult]_vars

----------------------------------------------------------------------------
(* SpecSlot: simplify_slot on drawn position texts *)

InitSlot ==
    /\ pc = "simplify_slot"
    /\ position \in Text(PosChars, MaxPosLen) \cup PositionNames
    /\ slot = "none"
    /\ today = [year |-> 2025, month |-> 11]
    /\ current_season = <<>> /\ previous_season = <<>>
    /\ logs_current = <<>> /\ logs_previous = <<>> /\ stats_df = <<>>
    /\ scorer_call = None /\ matchup_score = None
    /\ matches = <<>> /\ player_id = "None"
    /\ opponent_abbr = "BOS"
    /\ dvp_table = <<>> /\ league = None
    /\ shown = <<>> /\ fetches = <<>> /\ failed = "none"

SimplifySlot ==
    /\ pc = "simplify_slot"
    /\ slot' = simplify_slot(position)
    /\ pc' = "slot_done"
    /\ UNCHANGED <<today, current_season, previous_season, logs_current, logs_previous,
                   stats_df, position, scorer_call, matchup_score, matches, player_id,
                   opponent_abbr, dvp_table, league, shown, fetches, failed>>

NextSlot == SimplifySlot

SpecSlot == InitSlot /\ [][NextSlot]_vars

----------------------------------------------------------------------------
(* SpecLogs: lines 38-41 of get_last_10_games on drawn season logs *)

InitLogs ==
    /\ pc = "combine_logs"
    /\ logs_current \in Text(GameRows, MaxLogLen)
    /\ logs_previous \in Text(GameRows, MaxLogLen)
    /\ stats_df = <<>>
    /\ today = [year |-> 2025, month |-> 11]
    /\ current_season = <<>> /\ previous_season = <<>>
    /\ position = <<>> /\ slot = "none"
    /\ scorer_call = None /\ matchup_score = None
    /\ matches = <<>> /\ player_id = "None"
    /\ opponent_abbr = "BOS"
    /\ dvp_table = <<>> /\ league = None
    /\ shown = <<>> /\ fetches = <<>> /\ failed = "none"

CombineLogs ==
    /\ pc = "combine_logs"
    /\ stats_df' = last_10(logs_current, logs_previous)
    /\ pc' = "logs_done"
    /\ UNCHANGED <<today, current_season, previous_season, logs_current, logs_previous,
                   position, slot, scorer_call, matchup_score, matches, player_id,
                   opponent_abbr, dvp_table, league, shown, fetches, failed>>

NextLogs == CombineLogs

SpecLogs == InitLogs /\ [][NextLogs]_vars

----------------------------------------------------------------------------
(* Properties of the pure functions *)

TwoDigits(n) == <<Digits[(n \div 10) + 1], Digits[(n % 10) + 1]>>

CountDate(s, d) == Cardinality({i \in DOMAIN s : s[i].GAME_DATE = d})

\* C1: with std > 0, matchup_multiplier returns the band of
\* z = (pts_allowed - avg) / std as tabled: 1.25 for z >= 1.0, 1.15 for
\* 0.5 <= z < 1.0, 1.00 for -0.5 < z < 0.5, 0.75 for -1.0 < z <= -0.5 and
\* 0.85 for z <= -1.0.
C1_BandsAsTabled ==
    (pc = "multiplier_done" /\ scorer_call.val.std.k = "num" /\ scorer_call.val.std.n > 0) =>
        LET d == scorer_call.val.pts_allowed.n - scorer_call.val.avg.n
            s == scorer_call.val.std.n
            m == matchup_score.val
        IN /\ (d >= s) => m = 125
           /\ (2 * d >= s /\ d < s) => m = 115
           /\ (-s < 2 * d /\ 2 * d < s) => m = 100
           /\ (-s < d /\ 2 * d <= -s) => m = 75
           /\ (d <= -s) => m = 85
           /\ (5 * d = 6 * s) => m = 125

\* C1 witness: a call with z = -1.0 exactly has returned 0.85.
C1_Witness ==
    /\ pc = "multiplier_done"
    /\ scorer_call.val.std.k = "num" /\ scorer_call.val.std.n > 0
    /\ scorer_call.val.pts_allowed.n - scorer_call.val.avg.n = -scorer_call.val.std.n
    /\ matchup_score.val = 85

\* C2: the bands mirror about 1.00: multiplier(z) - 1.00 = 1.00 - multiplier(-z).
\* The mirrored call has pts_allowed reflected about avg.
C2_MirrorAboutOne ==
    (pc = "multiplier_done" /\ scorer_call.val.std.k = "num" /\ scorer_call.val.std.n > 0) =>
        LET a == scorer_call.val
            mirrored == FSub(FSub(a.avg, a.pts_allowed), FSub(Num(0), a.avg))
        IN matchup_score.val - 100 = 100 - matchup_multiplier(mirrored, a.avg, a.std)

\* C3: simplify_slot returns PG when the text contains "G"; else SF when it
\* contains "F"; else C when it contains "C"; else PG; always one of PG, SF, C.
C3_SlotOrder ==
    (pc = "slot_done") =>
        LET chars == {position[i] : i \in DOMAIN position}
        IN /\ ("G" \in chars) => slot = "PG"
           /\ ("G" \notin chars /\ "F" \in chars) => slot = "SF"
           /\ ("G" \notin chars /\ "F" \notin chars /\ "C" \in chars) => slot = "C"
           /\ (chars \cap {"G", "F", "C"} = {}) => slot = "PG"
           /\ slot \in {"PG", "SF", "C"}

\* C3 witness: "Guard-Forward" has resolved to PG.
C3_Witness ==
    /\ pc = "slot_done"
    /\ position = Guard \o <<"-">> \o Forward
    /\ slot = "PG"

C8_LastTen ==
    (pc = "logs_done") =>
        LET all == logs_current \o logs_previous
            left(d) == CountDate(all, d) - CountDate(stats_df, d)
        IN /\ Len(stats_df) = (IF Len(all) < 10 THEN Len(all) ELSE 10)
           /\ \A i \in 1..(Len(stats_df) - 1) :
                 stats_df[i].GAME_DATE >= stats_df[i + 1].GAME_DATE
           /\ \A d \in GameDates : left(d) >= 0
           /\ \A d \in GameDates : \A i \in DOMAIN stats_df :
                 left(d) > 0 => d <= stats_df[i].GAME_DATE

\* C8 witness: more than 10 rows came in, out of order, and rows of both dates
\* were kept.
C8_Witness ==
    /\ pc = "logs_done"
    /\ Len(logs_current) + Len(logs_previous) > 10
    /\ logs_current[1].GAME_DATE < logs_previous[1].GAME_DATE
    /\ Len(stats_df) = 10
    /\ stats_df[1].GAME_DATE > stats_df[10].GAME_DATE

\* C10: the previous-season string is what get_season_string gives one year
\* earlier: "(S-1)-" and the last two digits of S.
C10_PreviousSeason ==
    (pc = "seasons_done") =>
        LET S == ParseInt(Take(current_season, 4))
        IN /\ previous_season = Str(S - 1) \o <<"-">> \o TwoDigits(S % 100)
           /\ previous_season =
                get_season_string([year |-> today.year - 1, month |-> today.month])

----------------------------------------------------------------------------
(* Spec: one run of the "Fetch Stats" handler (lines 172-275) *)

PlayerIds == {"2544", "201939"}
MatchLists == {<<>>} \cup {<<a>> : a \in PlayerIds}
                     \cup {<<a, b>> : a, b \in PlayerIds}
RunDates == {[year |-> 2025, month |-> 11], [year |-> 2026, month |-> 3]}
RunLogs == Text(GameRows, MaxRunLogLen)
RunPositions == {<<>>, Guard, Forward \o <<"-">> \o Center, Center}

Range(s) == {s[i] : i \in DOMAIN s}

\* The last match taken instead of the first.
get_player_id_last(m) == IF m # <<>> THEN m[Len(m)] ELSE "None"

get_player_id(m) == IF m # <<>> THEN m[1] ELSE "None"

GameLogFetch(id, season) ==
    [endpoint |-> "PlayerGameLog", player_id |-> id, season |-> season]

PlayerInfoFetch(id) == [endpoint |-> "CommonPlayerInfo", player_id |-> id]

TeamStatsFetch(pos) ==
    [endpoint |-> "LeagueDashTeamStats", position |-> pos,
     season |-> <<"2", "0", "2", "4", "-", "2", "5">>]

\* The except clause of line 273: the error message is shown and the script ends.
Caught(step) ==
    /\ failed' = step
    /\ shown' = Append(shown, "Error fetching data")
    /\ pc' = "done"

Init ==
    /\ pc = "get_player_id"
    /\ today \in RunDates
    /\ opponent_abbr \in TeamAbbrs
    /\ current_season = <<>> /\ previous_season = <<>>
    /\ logs_current = <<>> /\ logs_previous = <<>> /\ stats_df = <<>>
    /\ position = <<>> /\ slot = "none"
    /\ scorer_call = None /\ matchup_score = None
    /\ matches = <<>> /\ player_id = "None"
    /\ dvp_table = <<>> /\ league = None
    /\ shown = <<>> /\ fetches = <<>> /\ failed = "none"

\* Lines 174-177: the lookup returns; no match shows "Player not found".
LookupPlayer ==
    /\ pc = "get_player_id"
    /\ \E m \in MatchLists :
         /\ matches' = m
         /\ player_id' = get_player_id(m)
         /\ IF get_player_id(m) = "None"
              THEN /\ shown' = Append(shown, "Player not found")
                   /\ pc' = "done"
              ELSE /\ shown' = shown
                   /\ pc' = "get_last_10_games"
    /\ UNCHANGED <<today, current_season, previous_season, logs_current, logs_previous,
                   stats_df, position, slot, scorer_call, matchup_score,
                   opponent_abbr, dvp_table, league, fetches, failed>>

\* Line 174 is outside the try block: an exception of the lookup leaves the script.
LookupPlayerRaises ==
    /\ pc = "get_player_id"
    /\ failed' = "get_player_id"
    /\ pc' = "uncaught"
    /\ UNCHANGED <<today, current_season, previous_season, logs_current, logs_previous,
                   stats_df, position, slot, scorer_call, matchup_score, matches,
                   player_id, opponent_abbr, dvp_table, league, shown, fetches>>

\* Lines 179-180 and 31-41: both season logs are fetched and combined.
GetLast10Games ==
    /\ pc = "get_last_10_games"
    /\ current_season' = get_season_string(today)
    /\ previous_season' = previous_season_of(current_season')
    /\ \E cur \in RunLogs, prev \in RunLogs :
         /\ logs_current' = cur
         /\ logs_previous' = prev
         /\ stats_df' = last_10(cur, prev)
    /\ fetches' = fetches \o <<GameLogFetch(player_id, current_season'),
                                GameLogFetch(player_id, previous_season')>>
    /\ pc' = "get_player_position"
    /\ UNCHANGED <<today, position, slot, scorer_call, matchup_score, matches,
                   player_id, opponent_abbr, dvp_table, league, shown, failed>>

\* The first or the second game-log request raises.
GetLast10GamesRaises ==
    /\ pc = "get_last_10_games"
    /\ current_season' = get_season_string(today)
    /\ previous_season' = previous_season_of(current_season')
    /\ \E k \in 1..2 :
         fetches' = fetches \o SubSeq(<<GameLogFetch(player_id, current_season'),
                                        GameLogFetch(player_id, previous_season')>>, 1, k)
    /\ Caught("get_last_10_games")
    /\ UNCHANGED <<today, logs_current, logs_previous, stats_df, position, slot,
                   scorer_call, matchup_score, matches, player_id, opponent_abbr,
                   dvp_table, league>>

\* Lines 183-184 and 26-28.
GetPlayerPosition ==
    /\ pc = "get_player_position"
    /\ \E p \in RunPositions :
         /\ position' = p
         /\ slot' = simplify_slot(p)
    /\ fetches' = Append(fetches, PlayerInfoFetch(player_id))
    /\ pc' = "get_dvp_table"
    /\ UNCHANGED <<today, current_season, previous_season, logs_current, logs_previous,
                   stats_df, scorer_call, matchup_score, matches, player_id,
                   opponent_abbr, dvp_table, league, shown, failed>>

GetPlayerPositionRaises ==
    /\ pc = "get_player_position"
    /\ fetches' = Append(fetches, PlayerInfoFetch(player_id))
    /\ Caught("get_player_position")
    /\ UNCHANGED <<today, current_season, previous_season, logs_current, logs_previous,
                   stats_df, position, slot, scorer_call, matchup_score, matches,
                   player_id, opponent_abbr, dvp_table, league>>

\* Lines 187-193 and 44-65: three requests, the pivot, then the six statistics.
\* A table without rows has no "Guard Pts Allowed" column: line 188 raises.
GetDvpTable ==
    /\ pc = "get_dvp_table"
    /\ fetches' = fetches \o <<TeamStatsFetch("G"), TeamStatsFetch("F"), TeamStatsFetch("C")>>
    /\ \E t \in DvpTables :
         /\ dvp_table' = t
         /\ IF DOMAIN t = {}
              THEN /\ league' = league
                   /\ Caught("league_stats")
              ELSE /\ league' = Some(league_stats(t))
                   /\ pc' = "opponent_lookup"
                   /\ UNCHANGED <<shown, failed>>
    /\ UNCHANGED <<today, current_season, previous_season, logs_current, logs_previous,
                   stats_df, position, slot, scorer_call, matchup_score, matches,
                   player_id, opponent_abbr>>

\* One of the three requests raises.
GetDvpTableRaises ==
    /\ pc = "get_dvp_table"
    /\ \E k \in 1..3 :
         fetches' = fetches \o SubSeq(<<TeamStatsFetch("G"), TeamStatsFetch("F"),
                                        TeamStatsFetch("C")>>, 1, k)
    /\ Caught("get_dvp_table")
    /\ UNCHANGED <<today, current_season, previous_season, logs_current, logs_previous,
                   stats_df, position, slot, scorer_call, matchup_score, matches,
                   player_id, opponent_abbr, dvp_table, league>>

\* Lines 195-219: the opponent's row feeds the scorer, or a warning is shown.
OpponentLookup ==
    /\ pc = "opponent_lookup"
    /\ LET team_name == team_map[opponent_abbr]
       IN IF team_name \in DOMAIN dvp_table
            THEN /\ scorer_call' = matchup_args(dvp_table[team_name], slot, league.val)
                 /\ matchup_score' =
                      Some(get_matchup_score(dvp_table[team_name], slot, league.val))
                 /\ shown' = Append(shown, "Matchup Multiplier")
            ELSE /\ shown' = Append(shown, "Could not find DvP data")
                 /\ UNCHANGED <<scorer_call, matchup_score>>
    /\ pc' = "headshot_logo"
    /\ UNCHANGED <<today, current_season, previous_season, logs_current, logs_previous,
                   stats_df, position, slot, matches, player_id, opponent_abbr,
                   dvp_table, league, fetches, failed>>

\* Lines 222-263: stats_df.iloc[0] raises IndexError on an empty game log;
\* the logo is shown when the first row's team has one.
HeadshotLogo ==
    /\ pc = "headshot_logo"
    /\ IF stats_df = <<>>
         THEN Caught("headshot_logo")
         ELSE /\ \E logo \in BOOLEAN :
                   shown' = shown \o (IF logo THEN <<"headshot", "logo">> ELSE <<"headshot">>)
              /\ pc' = "render"
              /\ failed' = failed
    /\ UNCHANGED <<today, current_season, previous_season, logs_current, logs_previous,
                   stats_df, position, slot, scorer_call, matchup_score, matches,
                   player_id, opponent_abbr, dvp_table, league, fetches>>

\* Lines 265-271: the success line, the game table and the four charts.
RenderTableAndCharts ==
    /\ pc = "render"
    /\ shown' = shown \o <<"success", "dataframe",
                           "chart PTS", "chart REB", "chart AST", "chart MIN">>
    /\ pc' = "done"
    /\ UNCHANGED <<today, current_season, previous_season, logs_current, logs_previous,
                   stats_df, position, slot, scorer_call, matchup_score, matches,
                   player_id, opponent_abbr, dvp_table, league, fetches, failed>>

Next ==
    \/ LookupPlayer
    \/ LookupPlayerRaises
    \/ GetLast10Games
    \/ GetLast10GamesRaises
    \/ GetPlayerPosition
    \/ GetPlayerPositionRaises
    \/ GetDvpTable
    \/ GetDvpTableRaises
    \/ OpponentLookup
    \/ HeadshotLogo
    \/ RenderTableAndCharts

Spec == Init /\ [][Next]_vars

----------------------------------------------------------------------------
(* Properties of the handler *)

Rendered == {"dataframe", "chart PTS", "chart REB", "chart AST", "chart MIN"}

\* C5: a run whose opponent has no row in the defense table warns, computes and
\* shows no multiplier, raises no error and still renders the game table and
\* the four charts.
C5_WarnThenRender ==
    (pc = "done" /\ "Could not find DvP data" \in Range(shown)) =>
        /\ matchup_score = None
        /\ "Matchup Multiplier" \notin Range(shown)
        /\ failed = "none"
        /\ Rendered \subseteq Range(shown)

\* C6: a failure of any fetch, the player lookup included, or of a computation
\* step is caught and ends the run showing the generic error message; no
\* request is issued a second time.
C6_FailuresCaught ==
    (failed # "none") =>
        /\ pc = "done"
        /\ shown # <<>>
        /\ shown[Len(shown)] = "Error fetching data"
        /\ \A i, j \in DOMAIN fetches : i < j => fetches[i] # fetches[j]

\* C7: when the lookup finds no match the run shows "Player not found" and
\* stops without a fetch, a multiplier, a table or a chart; otherwise every
\* fetch that names a player names the first match.
C7_NotFoundStops ==
    /\ (pc \notin {"get_player_id", "uncaught"} /\ matches = <<>>) =>
          /\ pc = "done"
          /\ shown = <<"Player not found">>
          /\ fetches = <<>>
          /\ matchup_score = None
          /\ stats_df = <<>>
    /\ \A i \in DOMAIN fetches :
          ("player_id" \in DOMAIN fetches[i]) => fetches[i].player_id = matches[1]

\* C7 witness: a lookup without a match has ended the run.
C7_Witness ==
    /\ pc = "done"
    /\ matches = <<>>
    /\ shown = <<"Player not found">>

\* C9: matchup_multiplier is only ever called with a standard deviation that is
\* defined and not zero.
C9_ScorerGuarded ==
    (scorer_call # None) =>
        /\ scorer_call.val.std.k = "num"
        /\ scorer_call.val.std.n # 0

====
